---- MODULE Spec2Model ----
(***************************************************************************)
(* A model of the CHIP-8 interpreter of chip8-emu (src/src/lib.rs) and of  *)
(* the calls its host (src/src/main.rs) makes on it.                       *)
(*                                                                         *)
(* The struct Chip8 is one record (the variable chip8).  Every method is   *)
(* an operator from the record (and the method's arguments) to a result    *)
(* [chip |-> the record as the method left it, panic |-> the Rust panic    *)
(* that unwound out of the method, or NoPanic].  The methods return (): a  *)
(* panic is the only way a call can fail, and main.rs never catches one,   *)
(* so a panic ends the process.                                            *)
(*                                                                         *)
(* The two large arrays are kept by their non-default entries: ram, a      *)
(* [u8; 4096], is the function from the addresses whose byte is not 0 to   *)
(* that byte (RamAt reads it, RamPut writes it); screen, a [bool; 2048],   *)
(* is the set of the indices whose pixel is on.  Both forms are canonical: *)
(* two arrays are equal exactly when their forms are.                      *)
(***************************************************************************)
EXTENDS Integers, Sequences, FiniteSets, TLC

VARIABLES
    chip8,      \* the Chip8 instance of main.rs:42 (struct Chip8, lib.rs:32-44)
    panic,      \* NoPanic while the process runs, else the panic that ended it
    last,       \* history: the last call made on chip8, [op, a, b]
    loaded,     \* host: whether it has loaded its program into chip8
    call_sites, \* history: the addresses of the CALLs that have not returned
    frame       \* host: its place in main (main.rs:42-84), [phase, steps, program]

vars == <<chip8, panic, last, loaded, call_sites, frame>>

----------------------------------------------------------------------------
(* Program constants.                                                      *)

SCREEN_WIDTH == 64
SCREEN_HEIGHT == 32
START_ADDRESS == 512
RAM_SIZE == 4096
NUM_REGISTER_V == 16
STACK_SIZE == 16
NUM_KEYS == 16
FONTSET_SIZE == 80
U8 == 256
U16 == 65536

FONTSET ==
    << 240, 144, 144, 144, 240,
        32,  96,  32,  32, 112,
       240,  16, 240, 128, 240,
       240,  16, 240,  16, 240,
       144, 144, 240,  16,  16,
       240, 128, 240,  16, 240,
       240, 128, 240, 144, 240,
       240,  16,  32,  64,  64,
       240, 144, 240, 144, 240,
       240, 144, 240,  16, 240,
       240, 144, 240, 144, 144,
       224, 144, 224, 144, 224,
       240, 128, 128, 128, 240,
       224, 144, 144, 144, 224,
       240, 128, 240, 128, 240,
       240, 128, 240, 128, 128 >>

----------------------------------------------------------------------------
(* Panics and results.                                                     *)

NoPanic == "none"
IndexOutOfBounds == "index out of bounds"
SliceOutOfRange == "range end index out of range for slice"
SubOverflow == "attempt to subtract with overflow"
AddOverflow == "attempt to add with overflow"
NotImplemented == "not implemented"

Ok(c) == [chip |-> c, panic |-> NoPanic]
Panicked(c, msg) == [chip |-> c, panic |-> msg]

----------------------------------------------------------------------------
(* Bit operations on bytes.                                                *)

Bit(v, i) == (v \div (2 ^ i)) % 2

BitAnd(a, b) ==
    LET F[i \in 0..8] ==
            IF i = 8 THEN 0 ELSE (2 ^ i) * (Bit(a, i) * Bit(b, i)) + F[i + 1]
    IN F[0]

BitOr(a, b) ==
    LET F[i \in 0..8] ==
            IF i = 8 THEN 0
            ELSE (2 ^ i) * (IF Bit(a, i) + Bit(b, i) > 0 THEN 1 ELSE 0) + F[i + 1]
    IN F[0]

BitXor(a, b) ==
    LET F[i \in 0..8] ==
            IF i = 8 THEN 0 ELSE (2 ^ i) * ((Bit(a, i) + Bit(b, i)) % 2) + F[i + 1]
    IN F[0]

----------------------------------------------------------------------------
(* Arithmetic on u8.                                                       *)

\* An addition that stops at 255.
saturating_add(a, b) == IF a + b >= U8 THEN U8 - 1 ELSE a + b

wrapping_add(a, b) == (a + b) % U8

\* An addition that never reports its carry.
overflowing_add_no_carry(a, b) == [value |-> (a + b) % U8, overflow |-> FALSE]

overflowing_add(a, b) == [value |-> (a + b) % U8, overflow |-> a + b >= U8]

\* A subtraction that reports a borrow on equal operands too.
overflowing_sub_on_equal(a, b) == [value |-> (a - b) % U8, overflow |-> a <= b]

overflowing_sub(a, b) == [value |-> (a - b) % U8, overflow |-> a < b]

----------------------------------------------------------------------------
(* The arrays ram and screen.                                              *)

RamAt(ram, a) == IF a \in DOMAIN ram THEN ram[a] ELSE 0

RamPut(ram, a, v) ==
    IF v = 0
    THEN [b \in DOMAIN ram \ {a} |-> ram[b]]
    ELSE [b \in DOMAIN ram \cup {a} |-> IF b = a THEN v ELSE ram[b]]

\* [0; RAM_SIZE] with ram[..FONTSET_SIZE].copy_from_slice(&FONTSET).
FontRam == [a \in {b \in 0..(FONTSET_SIZE - 1) : FONTSET[b + 1] # 0} |-> FONTSET[a + 1]]

PixelOn(screen, index) == index \in screen

\* self.screen[index] |= true: a lit pixel stays lit.
PixelSet(screen, index) == screen \cup {index}

PixelToggle(screen, index) ==
    IF index \in screen THEN screen \ {index} ELSE screen \cup {index}

----------------------------------------------------------------------------
(* Construction and the host-facing methods.                               *)

new ==
    [ screen          |-> {},
      ram             |-> FontRam,
      program_counter |-> START_ADDRESS,
      register_v      |-> [r \in 0..(NUM_REGISTER_V - 1) |-> 0],
      register_i      |-> 0,
      stack_pointer   |-> 0,
      delay_timer     |-> 0,
      sound_timer     |-> 0,
      stack           |-> [s \in 0..(STACK_SIZE - 1) |-> 0],
      keys            |-> [k \in 0..(NUM_KEYS - 1) |-> FALSE],
      is_debug        |-> FALSE ]

\* reset without the clearing of ram: the loaded program survives.
reset_keeps_program(c) ==
    Ok([ screen          |-> {},
         ram             |-> c.ram,
         program_counter |-> START_ADDRESS,
         register_v      |-> [r \in 0..(NUM_REGISTER_V - 1) |-> 0],
         register_i      |-> 0,
         delay_timer     |-> 0,
         sound_timer     |-> 0,
         stack_pointer   |-> 0,
         stack           |-> [s \in 0..(STACK_SIZE - 1) |-> 0],
         keys            |-> [k \in 0..(NUM_KEYS - 1) |-> FALSE],
         is_debug        |-> FALSE ])

reset(c) ==
    Ok([ screen          |-> {},
         ram             |-> FontRam,
         program_counter |-> START_ADDRESS,
         register_v      |-> [r \in 0..(NUM_REGISTER_V - 1) |-> 0],
         register_i      |-> 0,
         delay_timer     |-> 0,
         sound_timer     |-> 0,
         stack_pointer   |-> 0,
         stack           |-> [s \in 0..(STACK_SIZE - 1) |-> 0],
         keys            |-> [k \in 0..(NUM_KEYS - 1) |-> FALSE],
         is_debug        |-> FALSE ])

\* load that also switches the debug flag on.
load_enables_debug(c, data) ==
    LET start == START_ADDRESS
        end   == start + Len(data)
    IN IF end > RAM_SIZE
       THEN Panicked(c, SliceOutOfRange)
       ELSE Ok([c EXCEPT !.is_debug = TRUE,
                         !.ram =
                    [a \in (DOMAIN c.ram \ (start..(end - 1)))
                           \cup {b \in start..(end - 1) : data[b - start + 1] # 0} |->
                        IF a >= start /\ a < end THEN data[a - start + 1] ELSE c.ram[a]]])

\* self.ram[start..end] panics, before any byte is copied, when end > RAM_SIZE.
load(c, data) ==
    LET start == START_ADDRESS
        end   == start + Len(data)
    IN IF end > RAM_SIZE
       THEN Panicked(c, SliceOutOfRange)
       ELSE Ok([c EXCEPT !.ram =
                    [a \in (DOMAIN c.ram \ (start..(end - 1)))
                           \cup {b \in start..(end - 1) : data[b - start + 1] # 0} |->
                        IF a >= start /\ a < end THEN data[a - start + 1] ELSE c.ram[a]]])

get_display(c) == [p \in 0..(SCREEN_WIDTH * SCREEN_HEIGHT - 1) |-> p \in c.screen]

keypress(c, key_index, is_pressed) ==
    IF key_index >= NUM_KEYS
    THEN Panicked(c, IndexOutOfBounds)
    ELSE Ok([c EXCEPT !.keys[key_index] = is_pressed])

\* tick_timers without the tests for zero: the decrement wraps.
tick_timers_wrapping(c) ==
    Ok([c EXCEPT !.delay_timer = (c.delay_timer - 1) % U8,
                 !.sound_timer = (c.sound_timer - 1) % U8])

tick_timers(c) ==
    LET c1 == IF c.delay_timer > 0
              THEN [c EXCEPT !.delay_timer = c.delay_timer - 1] ELSE c
        c2 == IF c1.sound_timer > 0
              THEN [c1 EXCEPT !.sound_timer = c1.sound_timer - 1] ELSE c1
    IN Ok(c2)

is_beeping(c) == c.sound_timer > 0

----------------------------------------------------------------------------
(* The call stack.  The build decides what an arithmetic overflow does:    *)
(* with overflow checks (the dev profile) it panics, without them (the     *)
(* release profile) it wraps.  overflow_checks is that choice.             *)

stack_push(c, data) ==
    IF c.stack_pointer >= STACK_SIZE
    THEN Panicked(c, IndexOutOfBounds)
    ELSE Ok([c EXCEPT !.stack[c.stack_pointer] = data,
                      !.stack_pointer = c.stack_pointer + 1])

\* stack_pop reading the slot before it moves the pointer.
stack_pop_old_slot(c, overflow_checks) ==
    IF c.stack_pointer = 0 /\ overflow_checks
    THEN [chip |-> c, panic |-> SubOverflow, value |-> 0]
    ELSE IF c.stack_pointer >= STACK_SIZE
    THEN [chip |-> c, panic |-> IndexOutOfBounds, value |-> 0]
    ELSE [chip  |-> [c EXCEPT !.stack_pointer = (c.stack_pointer - 1) % U16],
          panic |-> NoPanic,
          value |-> c.stack[c.stack_pointer]]

\* The result carries the popped address in value.
stack_pop(c, overflow_checks) ==
    IF c.stack_pointer = 0 /\ overflow_checks
    THEN [chip |-> c, panic |-> SubOverflow, value |-> 0]
    ELSE LET c1 == [c EXCEPT !.stack_pointer = (c.stack_pointer - 1) % U16]
         IN IF c1.stack_pointer >= STACK_SIZE
            THEN [chip |-> c1, panic |-> IndexOutOfBounds, value |-> 0]
            ELSE [chip |-> c1, panic |-> NoPanic,
                  value |-> c1.stack[c1.stack_pointer]]

----------------------------------------------------------------------------
(* Fetch.  The result carries the instruction word in value.               *)

fetch(c) ==
    IF c.program_counter >= RAM_SIZE \/ c.program_counter + 1 >= RAM_SIZE
    THEN [chip |-> c, panic |-> IndexOutOfBounds, value |-> 0]
    ELSE LET higher_byte == RamAt(c.ram, c.program_counter)
             lower_byte  == RamAt(c.ram, c.program_counter + 1)
         IN [chip  |-> [c EXCEPT !.program_counter = c.program_counter + 2],
             panic |-> NoPanic,
             value |-> higher_byte * 256 + lower_byte]

----------------------------------------------------------------------------
(* The instructions with loops.                                            *)

\* One sprite row: the 8 bits of pixels, most significant first, XORed onto
\* the screen; flipped is whether a pixel that was on has been toggled.
\* draw_row without the modulo on the column.
draw_row_no_wrap(screen, pixels, x_coordinate, y_coordinate, y_line) ==
    LET S[k \in 0..8] ==
            IF k = 0 THEN [screen |-> screen, flipped |-> FALSE]
            ELSE LET prev   == S[k - 1]
                     x_line == k - 1
                     x      == x_coordinate + x_line
                     y      == (y_coordinate + y_line) % SCREEN_HEIGHT
                     index  == x + SCREEN_WIDTH * y
                 IN IF Bit(pixels, 7 - x_line) # 0
                    THEN [screen  |-> PixelToggle(prev.screen, index),
                          flipped |-> prev.flipped \/ PixelOn(prev.screen, index)]
                    ELSE prev
    IN S[8]

draw_row(screen, pixels, x_coordinate, y_coordinate, y_line) ==
    LET S[k \in 0..8] ==
            IF k = 0 THEN [screen |-> screen, flipped |-> FALSE]
            ELSE LET prev   == S[k - 1]
                     x_line == k - 1
                     x      == (x_coordinate + x_line) % SCREEN_WIDTH
                     y      == (y_coordinate + y_line) % SCREEN_HEIGHT
                     index  == x + SCREEN_WIDTH * y
                 IN IF Bit(pixels, 7 - x_line) # 0
                    THEN [screen  |-> PixelToggle(prev.screen, index),
                          flipped |-> prev.flipped \/ PixelOn(prev.screen, index)]
                    ELSE prev
    IN S[8]

RECURSIVE draw_rows(_, _, _, _, _, _, _)
draw_rows(c, x_coordinate, y_coordinate, y_line, num_rows, flipped, overflow_checks) ==
    IF y_line >= num_rows
    THEN Ok([c EXCEPT !.register_v[15] = IF flipped THEN 1 ELSE 0])
    ELSE IF c.register_i + y_line >= U16 /\ overflow_checks
    THEN Panicked(c, AddOverflow)
    ELSE LET address == (c.register_i + y_line) % U16
         IN IF address >= RAM_SIZE
            THEN Panicked(c, IndexOutOfBounds)
            ELSE LET row == draw_row(c.screen, RamAt(c.ram, address),
                                     x_coordinate, y_coordinate, y_line)
                 IN draw_rows([c EXCEPT !.screen = row.screen],
                              x_coordinate, y_coordinate, y_line + 1, num_rows,
                              flipped \/ row.flipped, overflow_checks)

draw(c, x, y, digit4, overflow_checks) ==
    draw_rows(c, c.register_v[x], c.register_v[y], 0, digit4, FALSE, overflow_checks)

\* wait_key without the break: the scan ends on the last pressed key.
wait_key_no_break(c, x) ==
    LET c1      == [c EXCEPT !.register_v[x] = c.delay_timer]
        pressed == {i \in 0..(NUM_KEYS - 1) : c1.keys[i]}
    IN IF pressed # {}
       THEN LET i == CHOOSE k \in pressed : \A j \in pressed : k >= j
            IN Ok([c1 EXCEPT !.register_v[x] = i])
       ELSE Ok([c1 EXCEPT !.program_counter = c1.program_counter - 2])

\* wait_key without the step back: PC moves on with no key pressed.
wait_key_advances(c, x) ==
    LET c1      == [c EXCEPT !.register_v[x] = c.delay_timer]
        pressed == {i \in 0..(NUM_KEYS - 1) : c1.keys[i]}
    IN IF pressed # {}
       THEN LET i == CHOOSE k \in pressed : \A j \in pressed : k <= j
            IN Ok([c1 EXCEPT !.register_v[x] = i])
       ELSE Ok(c1)

wait_key(c, x) ==
    LET c1      == [c EXCEPT !.register_v[x] = c.delay_timer]
        pressed == {i \in 0..(NUM_KEYS - 1) : c1.keys[i]}
    IN IF pressed # {}
       THEN LET i == CHOOSE k \in pressed : \A j \in pressed : k <= j
            IN Ok([c1 EXCEPT !.register_v[x] = i])
       ELSE Ok([c1 EXCEPT !.program_counter = c1.program_counter - 2])

\* self.ram[i + k] = values[k], one write after the other: an index past the
\* end of ram panics and the writes made before it stay.
RECURSIVE ram_store(_, _, _, _)
ram_store(c, i, values, k) ==
    IF k > Len(values) THEN Ok(c)
    ELSE IF i + k - 1 >= RAM_SIZE THEN Panicked(c, IndexOutOfBounds)
    ELSE ram_store([c EXCEPT !.ram = RamPut(c.ram, i + k - 1, values[k])],
                   i, values, k + 1)

\* (vx / 100.0).floor(), ((vx / 10.0) % 10.0).floor(), vx % 10.0 in f32, for
\* an integer vx in 0..255: every intermediate is exact or rounds within the
\* same unit interval, so the digits are those of integer division.
\* The digits stored ones first.
bcd_ones_first(c, x) ==
    LET vx == c.register_v[x]
    IN ram_store(c, c.register_i, <<vx % 10, (vx \div 10) % 10, vx \div 100>>, 1)

bcd(c, x) ==
    LET vx       == c.register_v[x]
        hundreds == vx \div 100
        tens     == (vx \div 10) % 10
        ones     == vx % 10
    IN ram_store(c, c.register_i, <<hundreds, tens, ones>>, 1)

\* for index in 0..x: V[x] itself is not stored.
store_registers_exclusive(c, x) ==
    ram_store(c, c.register_i, [k \in 1..x |-> c.register_v[k - 1]], 1)

store_registers(c, x) ==
    ram_store(c, c.register_i, [k \in 1..(x + 1) |-> c.register_v[k - 1]], 1)

RECURSIVE load_registers_from(_, _, _)
load_registers_from(c, x, index) ==
    IF index > x THEN Ok(c)
    ELSE IF c.register_i + index >= RAM_SIZE THEN Panicked(c, IndexOutOfBounds)
    ELSE load_registers_from(
             [c EXCEPT !.register_v[index] = RamAt(c.ram, c.register_i + index)],
             x, index + 1)

load_registers(c, x) == load_registers_from(c, x, 0)

key_at(c, x) == c.register_v[x]

\* A skip over two instructions.
skip_if_far(c, cond) ==
    IF cond THEN Ok([c EXCEPT !.program_counter = c.program_counter + 4]) ELSE Ok(c)

\* The skip taken when the condition fails.
skip_if_not(c, cond) ==
    IF cond THEN Ok(c) ELSE Ok([c EXCEPT !.program_counter = c.program_counter + 2])

skip_if(c, cond) ==
    IF cond THEN Ok([c EXCEPT !.program_counter = c.program_counter + 2]) ELSE Ok(c)

----------------------------------------------------------------------------
(* Decode and execute.  c is the machine after fetch; rng is the byte the  *)
(* random generator returns (used by C,x,n,n only).                        *)

execute(c, opcode, rng, overflow_checks) ==
    LET digit1 == opcode \div 4096
        digit2 == (opcode \div 256) % 16
        digit3 == (opcode \div 16) % 16
        digit4 == opcode % 16
        nnn    == opcode % 4096
        nn     == opcode % 256
        x      == digit2
        y      == digit3
        vx     == c.register_v[x]
        vy     == c.register_v[y]
    IN CASE opcode = 0 -> Ok(c)
         [] opcode = 224 ->
              Ok([c EXCEPT !.screen = {}])
         [] opcode = 238 ->
              LET r == stack_pop(c, overflow_checks)
              IN IF r.panic # NoPanic THEN Panicked(r.chip, r.panic)
                 ELSE Ok([r.chip EXCEPT !.program_counter = r.value])
         [] digit1 = 1 -> Ok([c EXCEPT !.program_counter = nnn])
         [] digit1 = 2 ->
              LET r == stack_push(c, c.program_counter)
              IN IF r.panic # NoPanic THEN r
                 ELSE Ok([r.chip EXCEPT !.program_counter = nnn])
         [] digit1 = 3 -> skip_if(c, vx = nn)
         [] digit1 = 4 -> skip_if(c, vx # nn)
         [] digit1 = 5 -> skip_if(c, vx = vy)
         [] digit1 = 6 -> Ok([c EXCEPT !.register_v[x] = nn])
         [] digit1 = 7 -> Ok([c EXCEPT !.register_v[x] = wrapping_add(vx, nn)])
         [] digit1 = 8 /\ digit4 = 0 -> Ok([c EXCEPT !.register_v[x] = vy])
         [] digit1 = 8 /\ digit4 = 1 -> Ok([c EXCEPT !.register_v[x] = BitOr(vx, vy)])
         [] digit1 = 8 /\ digit4 = 2 -> Ok([c EXCEPT !.register_v[x] = BitAnd(vx, vy)])
         [] digit1 = 8 /\ digit4 = 3 -> Ok([c EXCEPT !.register_v[x] = BitXor(vx, vy)])
         [] digit1 = 8 /\ digit4 = 4 ->
              LET r  == overflowing_add(vx, vy)
                  c1 == [c EXCEPT !.register_v[x] = r.value]
              IN Ok([c1 EXCEPT !.register_v[15] = IF r.overflow THEN 1 ELSE 0])
         [] digit1 = 8 /\ digit4 = 5 ->
              LET r  == overflowing_sub(vx, vy)
                  c1 == [c EXCEPT !.register_v[x] = r.value]
              IN Ok([c1 EXCEPT !.register_v[15] = IF r.overflow THEN 0 ELSE 1])
         [] digit1 = 8 /\ digit4 = 6 ->
              LET c1 == [c EXCEPT !.register_v[15] = vx % 2]
              IN Ok([c1 EXCEPT !.register_v[x] = c1.register_v[x] \div 2])
         [] digit1 = 8 /\ digit4 = 7 ->
              LET r  == overflowing_sub(vy, vx)
                  c1 == [c EXCEPT !.register_v[x] = r.value]
              IN Ok([c1 EXCEPT !.register_v[15] = IF r.overflow THEN 0 ELSE 1])
         [] digit1 = 8 /\ digit4 = 14 ->
              LET c1 == [c EXCEPT !.register_v[15] = (vx \div 128) % 2]
              IN Ok([c1 EXCEPT !.register_v[x] = (c1.register_v[x] * 2) % U8])
         [] digit1 = 9 /\ digit4 = 0 -> skip_if(c, vx # vy)
         [] digit1 = 10 -> Ok([c EXCEPT !.register_i = nnn])
         [] digit1 = 11 -> Ok([c EXCEPT !.program_counter = c.register_v[0] + nnn])
         [] digit1 = 12 -> Ok([c EXCEPT !.register_v[x] = BitAnd(rng, nn)])
         [] digit1 = 13 -> draw(c, x, y, digit4, overflow_checks)
         [] digit1 = 14 /\ digit3 = 9 /\ digit4 = 14 ->
              IF key_at(c, x) >= NUM_KEYS THEN Panicked(c, IndexOutOfBounds)
              ELSE skip_if(c, c.keys[key_at(c, x)])
         [] digit1 = 14 /\ digit3 = 10 /\ digit4 = 1 ->
              IF key_at(c, x) >= NUM_KEYS THEN Panicked(c, IndexOutOfBounds)
              ELSE skip_if(c, ~c.keys[key_at(c, x)])
         [] digit1 = 15 /\ digit3 = 0 /\ digit4 = 7 ->
              Ok([c EXCEPT !.register_v[x] = c.delay_timer])
         [] digit1 = 15 /\ digit3 = 0 /\ digit4 = 10 -> wait_key(c, x)
         [] digit1 = 15 /\ digit3 = 1 /\ digit4 = 5 -> Ok([c EXCEPT !.delay_timer = vx])
         [] digit1 = 15 /\ digit3 = 1 /\ digit4 = 8 -> Ok([c EXCEPT !.sound_timer = vx])
         [] digit1 = 15 /\ digit3 = 1 /\ digit4 = 14 ->
              Ok([c EXCEPT !.register_i = (c.register_i + vx) % U16])
         [] digit1 = 15 /\ digit3 = 2 /\ digit4 = 9 -> Ok([c EXCEPT !.register_i = vx * 5])
         [] digit1 = 15 /\ digit3 = 3 /\ digit4 = 3 -> bcd(c, x)
         [] digit1 = 15 /\ digit3 = 5 /\ digit4 = 5 -> store_registers(c, x)
         [] digit1 = 15 /\ digit3 = 6 /\ digit4 = 5 -> load_registers(c, x)
         [] OTHER -> Panicked(c, NotImplemented)

\* A trace table whose CLS arm prints and leaves the screen as it is.
execute_with_debug_no_cls(c, opcode, rng, overflow_checks) ==
    IF opcode = 224 THEN Ok(c) ELSE execute(c, opcode, rng, overflow_checks)

\* lib.rs:382-668: the match of execute once more, each arm starting with a
\* println! of the opcode and its mnemonic to the standard output, which is
\* no part of the machine.
execute_with_debug(c, opcode, rng, overflow_checks) ==
    LET digit1 == opcode \div 4096
        digit2 == (opcode \div 256) % 16
        digit3 == (opcode \div 16) % 16
        digit4 == opcode % 16
        nnn    == opcode % 4096
        nn     == opcode % 256
        x      == digit2
        y      == digit3
        vx     == c.register_v[x]
        vy     == c.register_v[y]
    IN CASE opcode = 0 -> Ok(c)
         [] opcode = 224 ->
              Ok([c EXCEPT !.screen = {}])
         [] opcode = 238 ->
              LET r == stack_pop(c, overflow_checks)
              IN IF r.panic # NoPanic THEN Panicked(r.chip, r.panic)
                 ELSE Ok([r.chip EXCEPT !.program_counter = r.value])
         [] digit1 = 1 -> Ok([c EXCEPT !.program_counter = nnn])
         [] digit1 = 2 ->
              LET r == stack_push(c, c.program_counter)
              IN IF r.panic # NoPanic THEN r
                 ELSE Ok([r.chip EXCEPT !.program_counter = nnn])
         [] digit1 = 3 -> skip_if(c, vx = nn)
         [] digit1 = 4 -> skip_if(c, vx # nn)
         [] digit1 = 5 -> skip_if(c, vx = vy)
         [] digit1 = 6 -> Ok([c EXCEPT !.register_v[x] = nn])
         [] digit1 = 7 -> Ok([c EXCEPT !.register_v[x] = wrapping_add(vx, nn)])
         [] digit1 = 8 /\ digit4 = 0 -> Ok([c EXCEPT !.register_v[x] = vy])
         [] digit1 = 8 /\ digit4 = 1 -> Ok([c EXCEPT !.register_v[x] = BitOr(vx, vy)])
         [] digit1 = 8 /\ digit4 = 2 -> Ok([c EXCEPT !.register_v[x] = BitAnd(vx, vy)])
         [] digit1 = 8 /\ digit4 = 3 -> Ok([c EXCEPT !.register_v[x] = BitXor(vx, vy)])
         [] digit1 = 8 /\ digit4 = 4 ->
              LET r  == overflowing_add(vx, vy)
                  c1 == [c EXCEPT !.register_v[x] = r.value]
              IN Ok([c1 EXCEPT !.register_v[15] = IF r.overflow THEN 1 ELSE 0])
         [] digit1 = 8 /\ digit4 = 5 ->
              LET r  == overflowing_sub(vx, vy)
                  c1 == [c EXCEPT !.register_v[x] = r.value]
              IN Ok([c1 EXCEPT !.register_v[15] = IF r.overflow THEN 0 ELSE 1])
         [] digit1 = 8 /\ digit4 = 6 ->
              LET c1 == [c EXCEPT !.register_v[15] = vx % 2]
              IN Ok([c1 EXCEPT !.register_v[x] = c1.register_v[x] \div 2])
         [] digit1 = 8 /\ digit4 = 7 ->
              LET r  == overflowing_sub(vy, vx)
                  c1 == [c EXCEPT !.register_v[x] = r.value]
              IN Ok([c1 EXCEPT !.register_v[15] = IF r.overflow THEN 0 ELSE 1])
         [] digit1 = 8 /\ digit4 = 14 ->
              LET c1 == [c EXCEPT !.register_v[15] = (vx \div 128) % 2]
              IN Ok([c1 EXCEPT !.register_v[x] = (c1.register_v[x] * 2) % U8])
         [] digit1 = 9 /\ digit4 = 0 -> skip_if(c, vx # vy)
         [] digit1 = 10 -> Ok([c EXCEPT !.register_i = nnn])
         [] digit1 = 11 -> Ok([c EXCEPT !.program_counter = c.register_v[0] + nnn])
         [] digit1 = 12 -> Ok([c EXCEPT !.register_v[x] = BitAnd(rng, nn)])
         [] digit1 = 13 -> draw(c, x, y, digit4, overflow_checks)
         [] digit1 = 14 /\ digit3 = 9 /\ digit4 = 14 ->
              IF key_at(c, x) >= NUM_KEYS THEN Panicked(c, IndexOutOfBounds)
              ELSE skip_if(c, c.keys[key_at(c, x)])
         [] digit1 = 14 /\ digit3 = 10 /\ digit4 = 1 ->
              IF key_at(c, x) >= NUM_KEYS THEN Panicked(c, IndexOutOfBounds)
              ELSE skip_if(c, ~c.keys[key_at(c, x)])
         [] digit1 = 15 /\ digit3 = 0 /\ digit4 = 7 ->
              Ok([c EXCEPT !.register_v[x] = c.delay_timer])
         [] digit1 = 15 /\ digit3 = 0 /\ digit4 = 10 -> wait_key(c, x)
         [] digit1 = 15 /\ digit3 = 1 /\ digit4 = 5 -> Ok([c EXCEPT !.delay_timer = vx])
         [] digit1 = 15 /\ digit3 = 1 /\ digit4 = 8 -> Ok([c EXCEPT !.sound_timer = vx])
         [] digit1 = 15 /\ digit3 = 1 /\ digit4 = 14 ->
              Ok([c EXCEPT !.register_i = (c.register_i + vx) % U16])
         [] digit1 = 15 /\ digit3 = 2 /\ digit4 = 9 -> Ok([c EXCEPT !.register_i = vx * 5])
         [] digit1 = 15 /\ digit3 = 3 /\ digit4 = 3 -> bcd(c, x)
         [] digit1 = 15 /\ digit3 = 5 /\ digit4 = 5 -> store_registers(c, x)
         [] digit1 = 15 /\ digit3 = 6 /\ digit4 = 5 -> load_registers(c, x)
         [] OTHER -> Panicked(c, NotImplemented)

tick(c, rng, overflow_checks) ==
    LET f == fetch(c)
    IN IF f.panic # NoPanic THEN Panicked(f.chip, f.panic)
       ELSE IF f.chip.is_debug
            THEN execute_with_debug(f.chip, f.value, rng, overflow_checks)
            ELSE execute(f.chip, f.value, rng, overflow_checks)

----------------------------------------------------------------------------
(* The inputs: the programs the host loads, the keys it presses.           *)

\* A program given as 16-bit instruction words, as the bytes of its file.
Bytes(words) ==
    [i \in 1..(2 * Len(words)) |->
        IF i % 2 = 1 THEN words[(i + 1) \div 2] \div 256 ELSE words[i \div 2] % 256]

\* Two subroutines calling each other while key 1 is up and returning while
\* it is down: the call depth runs from 0 to past STACK_SIZE.
\*   200 6001  V0 = 1            20A E0A1  skip if key V0 up
\*   202 E0A1  skip if key V0 up 20C 00EE  RET
\*   204 00EE  RET               20E 2202  CALL 202
\*   206 220A  CALL 20A          210 120A  JMP 20A
\*   208 1202  JMP 202
ROM_CALLS ==
    Bytes(<<24577, 57505, 238, 8714, 4610, 57505, 238, 8706, 4618>>)

\* Every skip instruction, on registers and keys that vary.
\*   200 C003  V0 = rand & 3     20A 9010  skip if V0 # V1
\*   202 C103  V1 = rand & 3     20C E09E  skip if key V0 down
\*   204 3001  skip if V0 = 1    20E E1A1  skip if key V1 up
\*   206 4102  skip if V1 # 2    210 1200  JMP 200
\*   208 5010  skip if V0 = V1   212 1200  JMP 200
ROM_SKIPS ==
    Bytes(<<49155, 49411, 12289, 16642, 20496, 36880, 57502, 57761, 4608, 4608>>)

\* Both timers set from random values, then read back in a loop.
\*   200 C003  V0 = rand & 3     208 F207  V2 = DT
\*   202 F015  DT = V0           20A 1208  JMP 208
\*   204 C103  V1 = rand & 3
\*   206 F118  ST = V1
ROM_TIMERS ==
    Bytes(<<49155, 61461, 49411, 61720, 61959, 4616>>)

\* Wait for a key with the delay timer running.
\*   200 C003  V0 = rand & 3     204 F10A  V1 = wait key
\*   202 F015  DT = V0           206 1200  JMP 200
ROM_WAITKEY ==
    Bytes(<<49155, 61461, 61706, 4608>>)

\* A jump table over instruction words: B204 jumps to 204 + V0, V0 even.
\*   200 C01E  V0 = rand & 1E    202 B204  JMP V0 + 204
\*   204..  0001 00E1 5011 9011 8018 801F E000 E09F F000 F0FF  (no table row)
\*   218..  1FFF BFFF 1FFE                                  (jumps to the end)
ROM_PROBE ==
    Bytes(<<49182, 45572,
            1, 225, 20497, 36881, 32792, 32799, 57344, 57503, 61440, 61695,
            8191, 49151, 8190, 4608, 4608, 4608>>)

\* The largest program that fits, and the smallest that does not: every
\* byte is 12, every instruction word 1212 (JMP 212).
ROM_FILL(len) == [i \in 1..len |-> 18]

\* The register arithmetic on operands that carry, borrow and wrap, with
\* x # y, x = y, y = 15 and x = 15.  V1 is in 240..255 or 0..15, V2 one of
\* 240, 241, 0, 1; 8F10 puts V1 (8F20: V2) into VF before the forms that
\* read VF and before the last add immediate.
\*   200 C11F  V1 = rand & 1F    21A 82F5  V2 -= VF
\*   202 71F0  V1 += F0          21C 8F10  VF = V1
\*   204 C211  V2 = rand & 11    21E 82F7  V2 = VF - V2
\*   206 72F0  V2 += F0          220 8F10  VF = V1
\*   208 8124  V1 += V2          222 8F24  VF += V2
\*   20A 8125  V1 -= V2          224 8F10  VF = V1
\*   20C 8127  V1 = V2 - V1      226 8F25  VF -= V2
\*   20E 8116  V1 >>= 1          228 8F10  VF = V1
\*   210 812E  V1 <<= 1          22A 8F27  VF = V2 - VF
\*   212 8114  V1 += V1          22C 8F20  VF = V2
\*   214 8F10  VF = V1           22E 8F06  VF >>= 1
\*   216 81F4  V1 += VF          230 8F10  VF = V1
\*   218 8F10  VF = V1           232 8F0E  VF <<= 1
\*   234 8F10  VF = V1           236 71FF  V1 += FF
\*   238 1238  JMP 238
ROM_ARITH ==
    Bytes(<<49439, 29168, 49681, 29424, 33060, 33061, 33063, 33046, 33070,
            33044, 36624, 33268, 36624, 33525, 36624, 33527, 36624, 36644,
            36624, 36645, 36624, 36647, 36640, 36614, 36624, 36622, 36624,
            29183, 4664>>)

\* Glyphs drawn twice and over each other, at coordinates that wrap around
\* both edges: V1 and V2 are 254 or 0.
\*   200 C102  V1 = rand & 2     20E A005  I = 5 (glyph 1)
\*   202 71FE  V1 += FE          210 D125  draw over glyph 0
\*   204 C202  V2 = rand & 2     212 D125  draw again
\*   206 72FE  V2 += FE          214 00E0  CLS
\*   208 D125  draw glyph 0      216 D120  draw no row
\*   20A D125  draw again        218 DF15  draw at (VF, V1)
\*   20C D125  draw again        21A 121A  JMP 21A
ROM_DRAW ==
    Bytes(<<49410, 29182, 49666, 29438, 53541, 53541, 53541, 40965, 53541,
            53541, 224, 53536, 57109, 4634>>)

\* A program that fills memory to its last byte and reaches past it
\* through I: BCD, store, load at FFE and a two-row draw at FFF.  Every
\* byte after the code is 12.
\*   200 C006  V0 = rand & 6     20A F365  load V0..V3 from I
\*   202 AFFE  I = FFE           20C AFFF  I = FFF
\*   204 B206  JMP V0 + 206      20E D122  draw 2 rows at (V1, V2)
\*   206 F333  BCD of V3 at I    210 1210  JMP 210
\*   208 F355  store V0..V3 at I
ROM_EDGE ==
    LET code == Bytes(<<49158, 45054, 45574, 62259, 62293, 62309, 45055,
                        53538, 4624>>)
    IN [i \in 1..(RAM_SIZE - START_ADDRESS) |->
           IF i <= Len(code) THEN code[i] ELSE 18]

\* Key tests on a register holding no key index.
\*   200 C110  V1 = rand & 10    206 E09E  skip if key V0 down
\*   202 60FF  V0 = FF           208 E0A1  skip if key V0 up
\*   204 3100  skip if V1 = 0    20A 120A  JMP 20A
ROM_KEYTEST ==
    Bytes(<<49424, 24831, 12544, 57502, 57505, 4618>>)

\* A program that fills memory and ends in two skips, the first not taken
\* and the second taken.  Every byte between is 12.
\*   200 1FFC  JMP FFC           FFC 4000  skip if V0 # 0
\*                               FFE 3000  skip if V0 = 0
ROM_END ==
    LET len  == RAM_SIZE - START_ADDRESS
        tail == <<64, 0, 48, 0>>
    IN [i \in 1..len |->
           IF i = 1 THEN 31 ELSE IF i = 2 THEN 252
           ELSE IF i > len - 4 THEN tail[i - (len - 4)] ELSE 18]

\* The decimal digits of V0, in 240..255 or 0..15, stored in the middle of
\* memory and in its last three bytes.
\*   200 C01F  V0 = rand & 1F    208 AFFD  I = FFD
\*   202 70F0  V0 += F0          20A F033  BCD of V0 at I
\*   204 A300  I = 300           20C 120C  JMP 20C
\*   206 F033  BCD of V0 at I
ROM_BCD ==
    Bytes(<<49183, 28912, 41728, 61491, 45053, 61491, 4620>>)

\* Registers stored, overwritten and loaded back, in the middle of memory
\* and up to its last byte, with x = 2, 1 and 15.
\*   200 C003  V0 = rand & 3     214 F265  load V0..V2 from I
\*   202 C110  V1 = rand & 10    216 AFFD  I = FFD
\*   204 62AA  V2 = AA           218 F255  store V0..V2 at I
\*   206 63BB  V3 = BB           21A 8020  V0 = V2
\*   208 A300  I = 300           21C F165  load V0..V1 from I
\*   20A F255  store V0..V2 at I 21E AFF0  I = FF0
\*   20C 6011  V0 = 11           220 FF55  store V0..VF at I
\*   20E 8100  V1 = V0           222 6F07  VF = 7
\*   210 72FF  V2 += FF          224 FF65  load V0..VF from I
\*   212 6309  V3 = 09           226 1226  JMP 226
ROM_STORE ==
    Bytes(<<49155, 49424, 25258, 25531, 41728, 62037, 24593, 33024, 29439,
            25353, 62053, 45053, 62037, 32800, 61797, 45040, 65365, 28423,
            65381, 4646>>)

Programs ==
    << ROM_CALLS, ROM_SKIPS, ROM_TIMERS, ROM_WAITKEY, ROM_PROBE,
       ROM_FILL(RAM_SIZE - START_ADDRESS), ROM_FILL(RAM_SIZE - START_ADDRESS + 1),
       ROM_ARITH, ROM_DRAW, ROM_EDGE, ROM_KEYTEST, ROM_END, ROM_BCD, ROM_STORE >>

\* The key indices the host passes to keypress; NUM_KEYS is out of range.
KeyIndices == {1, 2, NUM_KEYS}

\* The largest byte thread_rng().gen() returns here; the masks of the
\* programs above keep bits 0..4 only.
MaxRand == 31

\* The bytes the random generator can return, drawn only by C,x,n,n.
RandBytes(c) ==
    IF c.program_counter < RAM_SIZE /\ RamAt(c.ram, c.program_counter) \div 16 = 12
    THEN {b \in 0..MaxRand : b < U8} ELSE {0}

----------------------------------------------------------------------------
(* The state machine: one action per public method.                        *)

Call(op, a, b) == [op |-> op, a |-> a, b |-> b]

Init ==
    /\ chip8 = new
    /\ panic = NoPanic
    /\ last = Call("new", 0, 0)
    /\ loaded = FALSE
    /\ call_sites = << >>
    /\ frame = [phase |-> "start", steps |-> 0, program |-> 0]

Becomes(r) ==
    /\ chip8' = r.chip
    /\ panic' = r.panic

\* last.a is the program counter before the reset, last.b is 1 when the
\* machine was not in its constructed state before it.
Reset ==
    /\ panic = NoPanic
    /\ Becomes(reset(chip8))
    /\ last' = Call("reset", chip8.program_counter, IF chip8 = new THEN 0 ELSE 1)
    /\ loaded' = FALSE
    /\ call_sites' = << >>
    /\ UNCHANGED frame

\* The host loads one program into a new machine (main.rs:42-47) or into
\* one it has just reset (main.rs:70-71), and ticks a machine that holds
\* its program.  last.a is the program's place in Programs, last.b its length.
LoadOneOf(files) ==
    /\ panic = NoPanic
    /\ ~loaded
    /\ \E p \in files :
          /\ Becomes(load(chip8, Programs[p]))
          /\ last' = Call("load", p, Len(Programs[p]))
    /\ loaded' = TRUE
    /\ UNCHANGED <<call_sites, frame>>

Load == LoadOneOf(1..Len(Programs))

Keypress ==
    /\ panic = NoPanic
    /\ \E key_index \in KeyIndices, is_pressed \in BOOLEAN :
          /\ Becomes(keypress(chip8, key_index, is_pressed))
          /\ last' = Call("keypress", key_index, IF is_pressed THEN 1 ELSE 0)
    /\ UNCHANGED <<loaded, call_sites, frame>>

TickTimers ==
    /\ panic = NoPanic
    /\ Becomes(tick_timers(chip8))
    /\ last' = Call("tick_timers", 0, 0)
    /\ UNCHANGED <<loaded, call_sites, frame>>

\* last.a is the address fetched from, last.b the word fetched (-1: none).
Tick ==
    /\ panic = NoPanic
    /\ loaded
    /\ \E rng \in RandBytes(chip8), overflow_checks \in BOOLEAN :
          Becomes(tick(chip8, rng, overflow_checks))
    /\ last' = Call("tick", chip8.program_counter,
                    IF fetch(chip8).panic = NoPanic THEN fetch(chip8).value ELSE -1)
    /\ call_sites' =
          IF panic' # NoPanic THEN call_sites
          ELSE IF last'.b \div 4096 = 2 THEN Append(call_sites, chip8.program_counter)
          ELSE IF last'.b = 238 THEN SubSeq(call_sites, 1, Len(call_sites) - 1)
          ELSE call_sites
    /\ UNCHANGED <<loaded, frame>>

Next == Reset \/ Load \/ Keypress \/ TickTimers \/ Tick

Spec == Init /\ [][Next]_vars

\* The host started on a program that waits for keys: the places in
\* Programs of those holding an Fx0A.
WaitKeyPrograms == {p \in 1..Len(Programs) : Programs[p] = ROM_WAITKEY}

LoadWaitKey == LoadOneOf(WaitKeyPrograms)

NextWaitKey == Reset \/ LoadWaitKey \/ Keypress \/ TickTimers \/ Tick

\* The host loop calls tick TICKS_PER_FRAME times in every frame
\* (main.rs:78-80): a tick that stays possible is eventually taken.
FairSpec == Init /\ [][NextWaitKey]_vars /\ WF_vars(Tick)

----------------------------------------------------------------------------
(* The host: main of main.rs, one action per call it makes on chip8.  frame *)
(* is its place in the loop: the phase, the ticks made in this frame and    *)
(* the place in Programs of the file it has read.                           *)

TICKS_PER_FRAME == 10

\* The program files the host is started on.
HostPrograms ==
    {p \in 1..Len(Programs) : Programs[p] \in {ROM_TIMERS, ROM_WAITKEY, ROM_KEYTEST}}

\* key_to_button returns Some(index) for indices of the keypad only.
HostKeyIndices == {key_index \in KeyIndices : key_index < NUM_KEYS}

At(phase, steps) == [frame EXCEPT !.phase = phase, !.steps = steps]

\* main.rs:42-47: the file is read into buffer and loaded.
HostLoadFile ==
    /\ panic = NoPanic /\ frame.phase = "start"
    /\ \E p \in HostPrograms :
          /\ Becomes(load(chip8, Programs[p]))
          /\ last' = Call("load", p, Len(Programs[p]))
          /\ frame' = [phase |-> "events", steps |-> 0, program |-> p]
    /\ loaded' = TRUE
    /\ UNCHANGED call_sites

\* main.rs:57-63, 64-68: a key of the keypad goes down or up.
HostKeyEvent ==
    /\ panic = NoPanic /\ frame.phase = "events"
    /\ \E key_index \in HostKeyIndices, is_pressed \in BOOLEAN :
          /\ Becomes(keypress(chip8, key_index, is_pressed))
          /\ last' = Call("keypress", key_index, IF is_pressed THEN 1 ELSE 0)
    /\ UNCHANGED <<loaded, call_sites, frame>>

\* main.rs:69-70: the key N goes up, chip8.reset().
HostResetEvent ==
    /\ panic = NoPanic /\ frame.phase = "events"
    /\ Becomes(reset(chip8))
    /\ last' = Call("reset", chip8.program_counter, IF chip8 = new THEN 0 ELSE 1)
    /\ loaded' = FALSE
    /\ call_sites' = << >>
    /\ frame' = At("reload", 0)

\* main.rs:71: chip8.load(&buffer), the bytes read at the start.
HostReload ==
    /\ panic = NoPanic /\ frame.phase = "reload"
    /\ Becomes(load(chip8, Programs[frame.program]))
    /\ last' = Call("load", frame.program, Len(Programs[frame.program]))
    /\ loaded' = TRUE
    /\ frame' = At("events", 0)
    /\ UNCHANGED call_sites

\* main.rs:52-56: the window is closed or Escape goes down, main returns.
HostQuit ==
    /\ panic = NoPanic /\ frame.phase = "events"
    /\ last' = Call("return", 0, 0)
    /\ frame' = At("quit", 0)
    /\ UNCHANGED <<chip8, panic, loaded, call_sites>>

\* main.rs:78-80: no event is pending, or the loop of ticks is under way.
HostTick ==
    /\ panic = NoPanic /\ frame.phase \in {"events", "ticks"}
    /\ frame.steps < TICKS_PER_FRAME
    /\ \E rng \in RandBytes(chip8), overflow_checks \in BOOLEAN :
          Becomes(tick(chip8, rng, overflow_checks))
    /\ last' = Call("tick", chip8.program_counter,
                    IF fetch(chip8).panic = NoPanic THEN fetch(chip8).value ELSE -1)
    /\ call_sites' =
          IF panic' # NoPanic THEN call_sites
          ELSE IF last'.b \div 4096 = 2 THEN Append(call_sites, chip8.program_counter)
          ELSE IF last'.b = 238 THEN SubSeq(call_sites, 1, Len(call_sites) - 1)
          ELSE call_sites
    /\ frame' = At("ticks", frame.steps + 1)
    /\ UNCHANGED loaded

\* The timers ticked before the loop of ticks has ended.
HostTickTimersEarly ==
    /\ panic = NoPanic /\ frame.phase = "ticks"
    /\ Becomes(tick_timers(chip8))
    /\ last' = Call("tick_timers", 0, 0)
    /\ frame' = At("draw", frame.steps)
    /\ UNCHANGED <<loaded, call_sites>>

\* main.rs:82: the loop of ticks has ended.
HostTickTimers ==
    /\ panic = NoPanic /\ frame.phase = "ticks"
    /\ frame.steps = TICKS_PER_FRAME
    /\ Becomes(tick_timers(chip8))
    /\ last' = Call("tick_timers", 0, 0)
    /\ frame' = At("draw", frame.steps)
    /\ UNCHANGED <<loaded, call_sites>>

\* main.rs:83: draw_screen reads get_display; the next frame begins.
HostDrawScreen ==
    /\ panic = NoPanic /\ frame.phase = "draw"
    /\ last' = Call("get_display",
                    Cardinality({p \in DOMAIN get_display(chip8) : get_display(chip8)[p]}), 0)
    /\ frame' = At("events", 0)
    /\ UNCHANGED <<chip8, panic, loaded, call_sites>>

HostNext ==
    \/ HostLoadFile \/ HostKeyEvent \/ HostResetEvent \/ HostReload \/ HostQuit
    \/ HostTick \/ HostTickTimers \/ HostDrawScreen

HostSpec == Init /\ [][HostNext]_vars

----------------------------------------------------------------------------
(* The claims.                                                             *)

Max(a, b) == IF a >= b THEN a ELSE b

\* The word the next tick fetches (-1: the fetch panics).
NextWord == IF fetch(chip8).panic = NoPanic THEN fetch(chip8).value ELSE -1

\* C1: after any sequence of calls, reset leaves the machine in exactly the
\* state of a freshly constructed one: ram[0..80) is the glyph table and
\* every other byte (the loaded program included) is 0, PC = 0x200, the V
\* registers, I, both timers, the stack pointer and every stack slot are 0,
\* every key is released, every pixel is off and the debug flag is false.
C1_ResetRestoresConstruction ==
    last.op = "reset" =>
        /\ panic = NoPanic
        /\ chip8 = new
        /\ \A a \in 0..(RAM_SIZE - 1) :
              RamAt(chip8.ram, a) = IF a < FONTSET_SIZE THEN FONTSET[a + 1] ELSE 0
        /\ chip8.program_counter = START_ADDRESS
        /\ \A r \in 0..(NUM_REGISTER_V - 1) : chip8.register_v[r] = 0
        /\ chip8.register_i = 0
        /\ chip8.delay_timer = 0 /\ chip8.sound_timer = 0
        /\ chip8.stack_pointer = 0
        /\ \A i \in 0..(STACK_SIZE - 1) : chip8.stack[i] = 0
        /\ \A k \in 0..(NUM_KEYS - 1) : ~chip8.keys[k]
        /\ \A p \in 0..(SCREEN_WIDTH * SCREEN_HEIGHT - 1) : ~get_display(chip8)[p]
        /\ ~chip8.is_debug

\* A reset of a machine that had left its constructed state at another PC.
C1_Witness ==
    /\ last.op = "reset" /\ last.b = 1 /\ last.a # START_ADDRESS
    /\ chip8 = new

\* C2: load(bytes) succeeds iff 0x200 + len(bytes) <= 4096; on success the
\* bytes are at 0x200.. and nothing else has changed; otherwise the failure
\* is reported to the caller (the call returns) and nothing has changed.
C2_LoadReportsOverflow ==
    [][last'.op = "load" =>
        LET data == Programs[last'.a]
            end  == START_ADDRESS + Len(data)
        IN /\ panic' = NoPanic
           /\ IF end <= RAM_SIZE
              THEN /\ \A i \in 1..Len(data) :
                         RamAt(chip8'.ram, START_ADDRESS + i - 1) = data[i]
                   /\ \A a \in 0..(RAM_SIZE - 1) :
                         (a < START_ADDRESS \/ a >= end)
                             => RamAt(chip8'.ram, a) = RamAt(chip8.ram, a)
                   /\ [chip8' EXCEPT !.ram = chip8.ram] = chip8
              ELSE chip8' = chip8]_vars

\* C3: setKey(index, pressed) with index in 0..15 sets exactly keys[index]
\* and changes nothing else; with index >= 16 the failure is reported to the
\* caller (the call returns) and no key changes.
C3_KeypressReportsIndex ==
    [][last'.op = "keypress" =>
        /\ panic' = NoPanic
        /\ IF last'.a < NUM_KEYS
           THEN chip8' = [chip8 EXCEPT !.keys[last'.a] = (last'.b = 1)]
           ELSE chip8'.keys = chip8.keys]_vars

\* How many tick_timers calls in a row the timer claim is evaluated for.
MaxTimerTicks == 5

RECURSIVE TickTimersTimes(_, _)
TickTimersTimes(c, k) ==
    IF k = 0 THEN c ELSE TickTimersTimes(tick_timers(c).chip, k - 1)

IsSetDelay(word) == word >= 0 /\ word \div 4096 = 15 /\ word % 256 = 21
IsSetSound(word) == word >= 0 /\ word \div 4096 = 15 /\ word % 256 = 24

\* C4: timers count down only through tickTimers and saturate at zero: k
\* calls take a timer holding v to max(v - k, 0), never below zero, and
\* change nothing but the two timers; a step that is not F,x,1,5 leaves the
\* delay timer alone, one that is not F,x,1,8 the sound timer; isBeeping is
\* true exactly while the sound timer is > 0, so false from the v-th call on.
C4_TimersSaturate ==
    /\ [](\A k \in 0..MaxTimerTicks :
            LET c == TickTimersTimes(chip8, k)
            IN /\ c = [chip8 EXCEPT
                          !.delay_timer = Max(chip8.delay_timer - k, 0),
                          !.sound_timer = Max(chip8.sound_timer - k, 0)]
               /\ c.delay_timer \in 0..(U8 - 1) /\ c.sound_timer \in 0..(U8 - 1)
               /\ is_beeping(c) <=> k < chip8.sound_timer)
    /\ [][/\ last'.op = "tick_timers" =>
                /\ panic' = NoPanic
                /\ chip8' = [chip8 EXCEPT
                                !.delay_timer = Max(chip8.delay_timer - 1, 0),
                                !.sound_timer = Max(chip8.sound_timer - 1, 0)]
          /\ last'.op \in {"tick", "load", "keypress"} =>
                /\ ~IsSetDelay(NextWord) \/ last'.op # "tick"
                      => chip8'.delay_timer = chip8.delay_timer
                /\ ~IsSetSound(NextWord) \/ last'.op # "tick"
                      => chip8'.sound_timer = chip8.sound_timer
          /\ last'.op = "tick" /\ IsSetDelay(NextWord) =>
                chip8'.delay_timer = chip8.register_v[(NextWord \div 256) % 16]
          /\ last'.op = "tick" /\ IsSetSound(NextWord) =>
                chip8'.sound_timer = chip8.register_v[(NextWord \div 256) % 16]]_vars

\* ROM_TIMERS has set the sound timer to 3 (V1) and the delay timer to at
\* least 1 (V0), and tick_timers calls have brought both down to zero.
C4_Witness ==
    /\ last.op = "tick_timers"
    /\ RamAt(chip8.ram, START_ADDRESS + 6) = 241 /\ RamAt(chip8.ram, START_ADDRESS + 7) = 24
    /\ chip8.program_counter >= START_ADDRESS + 8
    /\ chip8.register_v[1] = 3 /\ chip8.register_v[0] > 0
    /\ chip8.sound_timer = 0 /\ chip8.delay_timer = 0
    /\ ~is_beeping(chip8)

IsCall(word) == word >= 0 /\ word \div 4096 = 2
IsRet(word) == word = 238

\* C5: the stack pointer is in 0..16 in every reachable state; a CALL with
\* 16 return addresses on the stack and a RET with none fail with an error
\* reported to the caller of step (the call returns), the stack pointer and
\* the stack left as they were.
C5_StackErrorsReported ==
    /\ [](chip8.stack_pointer \in 0..STACK_SIZE)
    /\ [][last'.op = "tick" =>
            /\ IsCall(NextWord) /\ chip8.stack_pointer = STACK_SIZE =>
                  /\ panic' = NoPanic
                  /\ chip8'.stack_pointer = chip8.stack_pointer
                  /\ chip8'.stack = chip8.stack
            /\ IsRet(NextWord) /\ chip8.stack_pointer = 0 =>
                  /\ panic' = NoPanic
                  /\ chip8'.stack_pointer = chip8.stack_pointer
                  /\ chip8'.stack = chip8.stack]_vars

\* The rows of the instruction table of the specification.
InstructionTable(word) ==
    LET digit1 == word \div 4096
        digit3 == (word \div 16) % 16
        digit4 == word % 16
    IN \/ word \in {0, 224, 238}
       \/ digit1 \in {1, 2, 3, 4, 6, 7, 10, 11, 12, 13}
       \/ digit1 \in {5, 9} /\ digit4 = 0
       \/ digit1 = 8 /\ digit4 \in (0..7) \cup {14}
       \/ digit1 = 14 /\ <<digit3, digit4>> \in {<<9, 14>>, <<10, 1>>}
       \/ digit1 = 15 /\ <<digit3, digit4>> \in
             {<<0, 7>>, <<0, 10>>, <<1, 5>>, <<1, 8>>, <<1, 14>>,
              <<2, 9>>, <<3, 3>>, <<5, 5>>, <<6, 5>>}

\* C6: a word that matches no row of the instruction table makes step fail
\* with an error reported to the caller (the call returns) and the step
\* halts: only the fetch has moved PC, and the V registers, I, memory, the
\* stack, the timers, the keys and the display are unchanged.  0000 is a
\* no-op and no error.
C6_UnsupportedReported ==
    [][last'.op = "tick" /\ NextWord >= 0 =>
          /\ ~InstructionTable(NextWord) \/ NextWord = 0 =>
                /\ panic' = NoPanic
                /\ chip8' = [chip8 EXCEPT !.program_counter = chip8.program_counter + 2]]_vars

\* C7: a step taken when PC or PC + 1 is no address of memory (PC > 4094)
\* fails with an error reported to the caller (the call returns, the process
\* goes on) and no instruction is executed.
C7_FetchErrorReported ==
    [][last'.op = "tick" /\ chip8.program_counter > RAM_SIZE - 2 =>
          /\ panic' = NoPanic
          /\ chip8' = chip8]_vars

\* C8: call and return are LIFO and round-trip: with d CALLs, d in 1..16,
\* outstanding at addresses a1..ad (call_sites), the stack holds a1+2..ad+2,
\* each RET sets PC to the address after the latest outstanding CALL, and the
\* stack pointer is the number of outstanding CALLs (so d RETs after d CALLs
\* bring it back to its value before the first).
C8_CallReturnLIFO ==
    /\ [](panic = NoPanic =>
            /\ chip8.stack_pointer = Len(call_sites)
            /\ chip8.stack_pointer <= STACK_SIZE
            /\ \A i \in 1..Len(call_sites) : chip8.stack[i - 1] = call_sites[i] + 2)
    /\ [][last'.op = "tick" /\ panic' = NoPanic =>
            /\ IsCall(NextWord) =>
                  /\ chip8'.program_counter = NextWord % 4096
                  /\ chip8'.stack_pointer = chip8.stack_pointer + 1
                  /\ chip8'.stack[chip8.stack_pointer] = chip8.program_counter + 2
            /\ IsRet(NextWord) =>
                  /\ Len(call_sites) > 0
                  /\ chip8'.program_counter = call_sites[Len(call_sites)] + 2
                  /\ chip8'.stack_pointer = chip8.stack_pointer - 1]_vars

\* The last of 16 RETs: the stack is empty again and its top slot holds the
\* return address of the 16th nested CALL.
C8_Witness ==
    /\ last.op = "tick" /\ IsRet(last.b) /\ panic = NoPanic
    /\ chip8.stack_pointer = 0
    /\ chip8.stack[STACK_SIZE - 1] # 0
    /\ chip8.stack[0] # chip8.stack[1]
    /\ chip8.program_counter = chip8.stack[0]

IsKeySkip(word) ==
    word \div 4096 = 14 /\ word % 256 \in {158, 161}

IsSkip(word) ==
    \/ word \div 4096 \in {3, 4}
    \/ word \div 4096 \in {5, 9} /\ word % 16 = 0
    \/ IsKeySkip(word)

\* The condition of a skip instruction, as the instruction table gives it.
SkipCondition(c, word) ==
    LET digit1 == word \div 4096
        vx     == c.register_v[(word \div 256) % 16]
        vy     == c.register_v[(word \div 16) % 16]
        nn     == word % 256
    IN CASE digit1 = 3 -> vx = nn
         [] digit1 = 4 -> vx # nn
         [] digit1 = 5 -> vx = vy
         [] digit1 = 9 -> vx # vy
         [] digit1 = 14 /\ nn = 158 -> c.keys[vx]
         [] digit1 = 14 /\ nn = 161 -> ~c.keys[vx]

\* C9: for each skip instruction (3xnn, 4xnn, 5xy0, 9xy0, Ex9E, ExA1), with
\* V[x] <= 15 for the key forms, after one step PC is the PC before the
\* fetch + 4 when the condition holds and + 2 when it does not, and nothing
\* else has changed.
C9_Skips ==
    [][/\ last'.op = "tick"
       /\ NextWord >= 0 /\ IsSkip(NextWord)
       /\ IsKeySkip(NextWord) => chip8.register_v[(NextWord \div 256) % 16] < NUM_KEYS
       => /\ panic' = NoPanic
          /\ chip8' = [chip8 EXCEPT !.program_counter =
                          chip8.program_counter
                              + (IF SkipCondition(chip8, NextWord) THEN 4 ELSE 2)]]_vars

\* E09E has skipped: key V0 is down.
C9_Witness ==
    /\ last.op = "tick" /\ last.b = 57502 /\ panic = NoPanic
    /\ chip8.keys[chip8.register_v[0]]
    /\ chip8.program_counter = last.a + 4

IsWaitKey(word) == word \div 4096 = 15 /\ word % 256 = 10

\* C10: wait-for-key (Fx0A): with no key pressed, PC after the step is PC
\* before it and V[x] holds the delay timer; with a key pressed, PC is the PC
\* before the fetch + 2 and V[x] is the lowest index among the pressed keys;
\* nothing else changes.
C10_WaitKey ==
    [][last'.op = "tick" /\ NextWord >= 0 /\ IsWaitKey(NextWord) =>
          LET x       == (NextWord \div 256) % 16
              pressed == {k \in 0..(NUM_KEYS - 1) : chip8.keys[k]}
          IN /\ panic' = NoPanic
             /\ IF pressed = {}
                THEN chip8' = [chip8 EXCEPT !.register_v[x] = chip8.delay_timer]
                ELSE /\ \E k \in pressed :
                           /\ \A j \in pressed : k <= j
                           /\ chip8' = [chip8 EXCEPT
                                           !.register_v[x] = k,
                                           !.program_counter = chip8.program_counter + 2]]_vars

\* F10A has run with keys 1 and 2 both down: V1 is 1 and PC has moved on.
C10_Witness ==
    /\ last.op = "tick" /\ last.b = 61706 /\ panic = NoPanic
    /\ chip8.keys[1] /\ chip8.keys[2]
    /\ chip8.register_v[1] = 1
    /\ chip8.program_counter = last.a + 2

NoKeyDown == \A k \in 0..(NUM_KEYS - 1) : ~chip8.keys[k]

\* The machine has just moved past a wait-for-key with V[x] a pressed key.
PastWaitKey ==
    /\ last.op = "tick" /\ last.b >= 0 /\ IsWaitKey(last.b) /\ panic = NoPanic
    /\ chip8.program_counter = last.a + 2
    /\ chip8.register_v[(last.b \div 256) % 16] < NUM_KEYS
    /\ chip8.keys[chip8.register_v[(last.b \div 256) % 16]]

\* C11: wait-for-key is a polling block resolved only by the host: while PC
\* is at an Fx0A and every key is released, a tick or a tick_timers leaves PC
\* at that instruction, the memory (so the instruction bytes) and the keys
\* as they were, so any number of them does; and when the host keeps
\* ticking, a machine at an Fx0A with a key down moves past it with V[x]
\* the index of a pressed key, unless the host has released the keys, reset
\* the machine or crashed it before that tick.
C11_WaitKeyPolls ==
    /\ [][/\ last'.op \in {"tick", "tick_timers"}
          /\ NextWord >= 0 /\ IsWaitKey(NextWord) /\ NoKeyDown
          => /\ panic' = NoPanic
             /\ chip8'.program_counter = chip8.program_counter
             /\ chip8'.ram = chip8.ram
             /\ chip8'.keys = chip8.keys]_vars
    /\ (loaded /\ panic = NoPanic /\ NextWord >= 0 /\ IsWaitKey(NextWord) /\ ~NoKeyDown)
          ~> (PastWaitKey \/ NoKeyDown \/ ~loaded \/ panic # NoPanic)

\* F10A has been polled with the delay timer at 2 and every key released (V1
\* holds the timer, PC is still at the instruction).
C11_Witness ==
    /\ last.op = "tick" /\ last.b = 61706 /\ panic = NoPanic
    /\ NoKeyDown
    /\ chip8.program_counter = last.a
    /\ chip8.register_v[1] = 2
    /\ NextWord = 61706

IsDraw(word) == word \div 4096 = 13

\* The pixels of the 8 x n area a sprite drawn at (vx, vy) covers.
SpriteArea(vx, vy, n) ==
    {((vx + col) % SCREEN_WIDTH) + SCREEN_WIDTH * ((vy + r) % SCREEN_HEIGHT) :
        r \in 0..(n - 1), col \in 0..7}

\* The pixels under the set bits of the n sprite bytes at I.
SpritePixels(c, vx, vy, n) ==
    LET cells == {rc \in (0..(n - 1)) \X (0..7) :
                     Bit(RamAt(c.ram, c.register_i + rc[1]), 7 - rc[2]) = 1}
    IN {((vx + rc[2]) % SCREEN_WIDTH) + SCREEN_WIDTH * ((vy + rc[1]) % SCREEN_HEIGHT) :
           rc \in cells}

\* C12: drawing is an involution on the display: from every reachable state
\* about to execute a Dxyn with x # 15 and y # 15 that draws without
\* failing, executing the instruction and then the same instruction again
\* (I, V[x], V[y] and the sprite bytes are as they were) gives back the
\* display from before the first draw; when the sprite's area was blank the
\* first draw leaves VF = 0 and, the sprite having a set bit, the second
\* leaves VF = 1.
C12_DrawInvolution ==
    loaded /\ panic = NoPanic /\ NextWord >= 0 /\ IsDraw(NextWord)
        /\ (NextWord \div 256) % 16 # 15 /\ (NextWord \div 16) % 16 # 15 =>
        LET word   == NextWord
            vx     == chip8.register_v[(word \div 256) % 16]
            vy     == chip8.register_v[(word \div 16) % 16]
            n      == word % 16
            first  == execute(fetch(chip8).chip, word, 0, TRUE)
            second == execute(first.chip, word, 0, TRUE)
        IN first.panic = NoPanic =>
              /\ first.chip.register_i = chip8.register_i
              /\ first.chip.ram = chip8.ram
              /\ first.chip.register_v[(word \div 256) % 16] = vx
              /\ first.chip.register_v[(word \div 16) % 16] = vy
              /\ second.panic = NoPanic
              /\ second.chip.screen = chip8.screen
              /\ SpriteArea(vx, vy, n) \cap chip8.screen = {} =>
                    /\ first.chip.register_v[15] = 0
                    /\ SpritePixels(chip8, vx, vy, n) # {} =>
                          second.chip.register_v[15] = 1

\* ROM_DRAW has drawn glyph 0 at (254, 254) and then drawn it again: the
\* display is blank as before the first draw and VF is 1.
C12_Witness ==
    /\ last.op = "tick" /\ last.b = 53541 /\ last.a = START_ADDRESS + 10
    /\ panic = NoPanic
    /\ chip8.register_v[1] = 254 /\ chip8.register_v[2] = 254
    /\ chip8.register_i = 0
    /\ chip8.screen = {}
    /\ chip8.register_v[15] = 1

\* Byte values at the edges of the range and around the sign bit.
ByteSamples == {0, 1, 2, 127, 128, 129, 254, 255}

\* The word with the hexadecimal digits d1, d2, d3, d4.
Word(d1, d2, d3, d4) == d1 * 4096 + d2 * 256 + d3 * 16 + d4

\* c with V[x] = a and then V[y] = b.
WithRegisters(c, x, a, y, b) ==
    [[c EXCEPT !.register_v[x] = a] EXCEPT !.register_v[y] = b]

\* c with V[x] = value (x # 15), V[15] = flag and no other change.
ResultAndFlag(c, x, value, flag) ==
    [c EXCEPT !.register_v =
        [r \in 0..(NUM_REGISTER_V - 1) |->
            IF r = 15 THEN flag ELSE IF r = x THEN value ELSE c.register_v[r]]]

Fetched(c) == [c EXCEPT !.program_counter = c.program_counter + 2]

IsOp8(word, digit4) == word >= 0 /\ word \div 4096 = 8 /\ word % 16 = digit4

\* C13: 8xy4, for the V[x] and V[y] read before the instruction and all x, y
\* in 0..15 (x = y and y = 15 included): after the step V[15] is 1 if
\* V[x] + V[y] > 255 and 0 otherwise, V[x] is (V[x] + V[y]) mod 256 for
\* x # 15, the carry is what V[15] holds when x = 15, and nothing else
\* changes.  Stated of every such step of a run and, in the constructed
\* machine, of every x, y with sampled bytes in V[x] and V[y].
C13_AddCarry ==
    /\ [](last.op = "new" =>
            \A x, y \in 0..(NUM_REGISTER_V - 1) : \A a, b \in ByteSamples :
                LET c  == WithRegisters(chip8, x, a, y, b)
                    vx == c.register_v[x]
                    vy == c.register_v[y]
                    r  == execute(c, Word(8, x, y, 4), 0, TRUE)
                IN /\ r.panic = NoPanic
                   /\ r.chip = ResultAndFlag(c, x, (vx + vy) % 256,
                                             IF vx + vy > 255 THEN 1 ELSE 0))
    /\ [][last'.op = "tick" /\ IsOp8(NextWord, 4) =>
            LET x  == (NextWord \div 256) % 16
                vx == chip8.register_v[x]
                vy == chip8.register_v[(NextWord \div 16) % 16]
            IN /\ panic' = NoPanic
               /\ chip8' = ResultAndFlag(Fetched(chip8), x, (vx + vy) % 256,
                                         IF vx + vy > 255 THEN 1 ELSE 0)]_vars

\* 8124 has run with V1 = 255 and V2 = 241: the sum 496 leaves 240 in V1
\* and the carry in VF.
C13_Witness ==
    /\ last.op = "tick" /\ last.b = 33060 /\ panic = NoPanic
    /\ chip8.register_v[2] = 241
    /\ chip8.register_v[1] = 240
    /\ chip8.register_v[15] = 1

\* C14: the subtractions set the flag to "no borrow" on the operands as they
\* were before the instruction: after 8xy5 V[15] = 1 iff V[x] >= V[y] and
\* V[x] = (V[x] - V[y]) mod 256 for x # 15; after 8xy7 V[15] = 1 iff
\* V[y] >= V[x] and V[x] = (V[y] - V[x]) mod 256 for x # 15; equal operands
\* give 0 with flag 1; nothing else changes.  Stated of every such step of
\* a run and, in the constructed machine, of every x, y in 0..15 (y = 15
\* included) with sampled bytes in V[x] and V[y].
C14_SubNoBorrow ==
    /\ [](last.op = "new" =>
            \A x, y \in 0..(NUM_REGISTER_V - 1) : \A a, b \in ByteSamples :
                LET c    == WithRegisters(chip8, x, a, y, b)
                    vx   == c.register_v[x]
                    vy   == c.register_v[y]
                    sub  == execute(c, Word(8, x, y, 5), 0, TRUE)
                    subn == execute(c, Word(8, x, y, 7), 0, TRUE)
                IN /\ sub.panic = NoPanic /\ subn.panic = NoPanic
                   /\ sub.chip = ResultAndFlag(c, x, (vx - vy) % 256,
                                               IF vx >= vy THEN 1 ELSE 0)
                   /\ subn.chip = ResultAndFlag(c, x, (vy - vx) % 256,
                                                IF vy >= vx THEN 1 ELSE 0)
                   /\ vx = vy /\ x # 15 =>
                         /\ sub.chip.register_v[x] = 0 /\ sub.chip.register_v[15] = 1
                         /\ subn.chip.register_v[x] = 0 /\ subn.chip.register_v[15] = 1)
    /\ [][last'.op = "tick" /\ (IsOp8(NextWord, 5) \/ IsOp8(NextWord, 7)) =>
            LET x  == (NextWord \div 256) % 16
                vx == chip8.register_v[x]
                vy == chip8.register_v[(NextWord \div 16) % 16]
            IN /\ panic' = NoPanic
               /\ IsOp8(NextWord, 5) =>
                     chip8' = ResultAndFlag(Fetched(chip8), x, (vx - vy) % 256,
                                            IF vx >= vy THEN 1 ELSE 0)
               /\ IsOp8(NextWord, 7) =>
                     chip8' = ResultAndFlag(Fetched(chip8), x, (vy - vx) % 256,
                                            IF vy >= vx THEN 1 ELSE 0)]_vars

\* 8125 has run with V1 = 240 and V2 = 241: the borrow leaves 255 in V1 and
\* 0 in VF.
C14_Witness ==
    /\ last.op = "tick" /\ last.b = 33061 /\ panic = NoPanic
    /\ chip8.register_v[2] = 241
    /\ chip8.register_v[1] = 255
    /\ chip8.register_v[15] = 0

\* C15: 7xnn wraps and has no flag effect: for every x in 0..14, after the
\* step V[x] = (V[x] + imm) mod 256, V[15] and every other register (and the
\* rest of the machine) are unchanged, also when the addition overflows.
\* Stated of every such step of a run and, in the constructed machine, of
\* every x in 0..14 with sampled bytes in V[x], imm and V[15].
C15_AddImmediate ==
    /\ [](last.op = "new" =>
            \A x \in 0..(NUM_REGISTER_V - 2) : \A a, imm, f \in ByteSamples :
                LET c == WithRegisters(chip8, x, a, 15, f)
                    r == execute(c, Word(7, x, imm \div 16, imm % 16), 0, TRUE)
                IN /\ r.panic = NoPanic
                   /\ r.chip = [c EXCEPT !.register_v[x] = (a + imm) % 256]
                   /\ r.chip.register_v[15] = f)
    /\ [][/\ last'.op = "tick" /\ NextWord >= 0 /\ NextWord \div 4096 = 7
          /\ (NextWord \div 256) % 16 # 15
          => LET x == (NextWord \div 256) % 16
             IN /\ panic' = NoPanic
                /\ chip8' = [Fetched(chip8) EXCEPT !.register_v[x] =
                                (chip8.register_v[x] + (NextWord % 256)) % 256]
                /\ chip8'.register_v[15] = chip8.register_v[15]]_vars

\* 71FF has run with V1 = VF >= 2 (8F10 before it): the sum is above 255,
\* V1 holds VF - 1 and VF is what it was, no carry.
C15_Witness ==
    /\ last.op = "tick" /\ last.b = 29183 /\ panic = NoPanic
    /\ chip8.register_v[15] >= 2
    /\ chip8.register_v[1] = chip8.register_v[15] - 1

\* The instruction words the two dispatch tables are compared on: every
\* first, third and fourth digit, with x one of 0, 1, 15.
WordSamples ==
    {Word(d1, d2, d3, d4) : d1 \in 0..15, d2 \in {0, 1, 15}, d3 \in 0..15, d4 \in 0..15}

\* The outcome of a tick of c taken with the debug flag as given, the flag
\* itself left out of the comparison.
TickWithDebug(c, flag, rng, overflow_checks) ==
    LET r == tick([c EXCEPT !.is_debug = flag], rng, overflow_checks)
    IN [chip |-> [r.chip EXCEPT !.is_debug = FALSE], panic |-> r.panic]

\* C16: tracing never alters a state transition: from every reachable
\* machine state, for every byte the random generator can return, a step
\* taken with the debug flag on gives the same successor state (memory, V,
\* I, PC, stack, stack pointer, timers, keys, display) and the same error
\* outcome as a step taken with the flag off; and in the constructed
\* machine the two dispatch tables give the same outcome on every sampled
\* instruction word.
C16_DebugSameTransition ==
    /\ last.op = "new" =>
          \A word \in WordSamples :
              execute_with_debug(Fetched(chip8), word, 0, TRUE)
                  = execute(Fetched(chip8), word, 0, TRUE)
    /\ loaded /\ panic = NoPanic =>
          \A rng \in RandBytes(chip8), overflow_checks \in BOOLEAN :
              TickWithDebug(chip8, TRUE, rng, overflow_checks)
                  = TickWithDebug(chip8, FALSE, rng, overflow_checks)

\* A machine with glyphs on its display about to execute 00E0: the step
\* taken with the debug flag on clears the display.
C16_Witness ==
    /\ loaded /\ panic = NoPanic
    /\ NextWord = 224
    /\ chip8.screen # {}
    /\ TickWithDebug(chip8, TRUE, 0, TRUE).panic = NoPanic
    /\ TickWithDebug(chip8, TRUE, 0, TRUE).chip.screen = {}

\* The display after the pixels of toggled have been flipped.
Flipped(screen, toggled) == (screen \ toggled) \cup (toggled \ screen)

\* c after a draw of n rows at (vx, vy) as the instruction table gives it.
Drawn(c, vx, vy, n) ==
    LET toggled == SpritePixels(c, vx, vy, n)
    IN [c EXCEPT !.screen = Flipped(c.screen, toggled),
                 !.register_v[15] = IF toggled \cap c.screen # {} THEN 1 ELSE 0]

\* C17: Dxyn with its n sprite bytes inside memory: for each row r < n and
\* column c < 8 the pixel ((V[x] + c) mod 64, (V[y] + r) mod 32) is toggled
\* iff bit 7 - c of memory[I + r] is set, with V[x], V[y] as they were
\* before the instruction; no other pixel changes; V[15] is 1 iff a toggled
\* pixel was on before the draw, else 0; memory, I and everything else are
\* unchanged.  Stated of every such step of a run and, in the constructed
\* machine, of the glyphs drawn at sampled coordinates.
C17_Draw ==
    /\ [](last.op = "new" =>
            \A a, b \in ByteSamples : \A n \in 0..15 : \A i \in {0, 5, FONTSET_SIZE - 5} :
                LET c == [WithRegisters(chip8, 0, a, 1, b) EXCEPT !.register_i = i]
                    r == execute(c, Word(13, 0, 1, n), 0, TRUE)
                IN r.panic = NoPanic /\ r.chip = Drawn(c, a, b, n))
    /\ [][/\ last'.op = "tick" /\ NextWord >= 0 /\ IsDraw(NextWord)
          /\ chip8.register_i + (NextWord % 16) <= RAM_SIZE
          => LET vx == chip8.register_v[(NextWord \div 256) % 16]
                 vy == chip8.register_v[(NextWord \div 16) % 16]
             IN /\ panic' = NoPanic
                /\ chip8' = Drawn(Fetched(chip8), vx, vy, NextWord % 16)
                /\ chip8'.ram = chip8.ram
                /\ chip8'.register_i = chip8.register_i]_vars

\* ROM_DRAW has drawn glyph 1 over glyph 0 at (254, 254): the sprite wraps
\* around both edges, pixel (0, 0) is lit by glyph 1 alone, pixel (0, 30) was
\* lit by glyph 0 and is off, and VF is 1.
C17_Witness ==
    /\ last.op = "tick" /\ last.b = 53541 /\ last.a = START_ADDRESS + 16
    /\ panic = NoPanic
    /\ chip8.register_v[1] = 254 /\ chip8.register_v[2] = 254
    /\ PixelOn(chip8.screen, 0)
    /\ ~PixelOn(chip8.screen, 30 * SCREEN_WIDTH)
    /\ chip8.register_v[15] = 1

\* C18: the shifts take the flag from the value before the shift: for
\* every x in 0..15 and the byte v in V[x] before the step, after 8xy6
\* V[15] = v & 1 and after 8xyE V[15] = v >> 7; for x # 15 V[x] = v >> 1,
\* respectively (v << 1) mod 256; V[y] is not written (and, nothing else
\* changing, not read).
C18_ShiftFlag ==
    [][last'.op = "tick" /\ (IsOp8(NextWord, 6) \/ IsOp8(NextWord, 14)) =>
          LET x == (NextWord \div 256) % 16
              v == chip8.register_v[x]
          IN /\ panic' = NoPanic
             /\ IsOp8(NextWord, 6) =>
                   chip8' = ResultAndFlag(Fetched(chip8), x, v \div 2, v % 2)
             /\ IsOp8(NextWord, 14) =>
                   chip8' = ResultAndFlag(Fetched(chip8), x, (v * 2) % 256, v \div 128)]_vars

IsOpF(word, nn) == word >= 0 /\ word \div 4096 = 15 /\ word % 256 = nn

\* The instruction addresses memory past its last byte through I.
OutOfRangeAccess(c, word) ==
    LET x == (word \div 256) % 16
        n == word % 16
    IN \/ IsDraw(word) /\ n > 0 /\ c.register_i + n - 1 >= RAM_SIZE
       \/ IsOpF(word, 51) /\ c.register_i + 2 >= RAM_SIZE
       \/ (IsOpF(word, 85) \/ IsOpF(word, 101)) /\ c.register_i + x >= RAM_SIZE

\* C19: a step is atomic with respect to data memory: a Dxyn, Fx33, Fx55 or
\* Fx65 that addresses memory outside 0..4095 through I fails with an error
\* reported to the caller (the call returns, the process goes on) and has
\* modified no memory byte, no register and no pixel.
C19_DataAccessAtomic ==
    [][last'.op = "tick" /\ NextWord >= 0 /\ OutOfRangeAccess(chip8, NextWord) =>
          /\ panic' = NoPanic
          /\ chip8'.ram = chip8.ram
          /\ chip8'.register_v = chip8.register_v
          /\ chip8'.register_i = chip8.register_i
          /\ chip8'.screen = chip8.screen]_vars

\* C20: the key tests never reach outside the keypad: an Ex9E or ExA1
\* executed with V[x] in 16..255 completes as a defined transition or fails
\* with an error reported to the caller of step (the call returns); it
\* never aborts the process.
C20_KeyTestInRange ==
    [][/\ last'.op = "tick" /\ NextWord >= 0 /\ IsKeySkip(NextWord)
       /\ chip8.register_v[(NextWord \div 256) % 16] >= NUM_KEYS
       => panic' = NoPanic]_vars

IsJumpOrBranch(word) == word = 238 \/ word \div 4096 \in {1, 2, 11}

\* C21 as stated: an out-of-range fetch is reached through a jump or a
\* branch only: a step that leaves PC above 4094 (no other call moves PC
\* there: load and reset set it to 0x200, keypress and tick_timers leave it)
\* executes 1nnn, 2nnn, Bnnn or 00EE; sequential advance and skips never
\* take PC out of the range where PC and PC + 1 are addresses.
C21_OutOfRangeOnlyByJump ==
    [][last'.op = "tick" /\ panic' = NoPanic /\ chip8'.program_counter > RAM_SIZE - 2
          => IsJumpOrBranch(NextWord)]_vars

\* C21 amended: an out-of-range fetch is reached through a jump or branch,
\* or by running off the end of memory: a step that leaves PC above 4094
\* executes 1nnn, 2nnn, Bnnn or 00EE, or it is an instruction fetched at
\* 4091..4094 that advances PC by 2, or by 4 when it is a taken skip, so that
\* PC is at most 4098; no call but tick moves PC above 4094.
C21_OutOfRangeByJumpOrEnd ==
    [][/\ last'.op = "tick" /\ panic' = NoPanic /\ chip8'.program_counter > RAM_SIZE - 2
          => \/ IsJumpOrBranch(NextWord)
             \/ /\ NextWord >= 0
                /\ chip8.program_counter \in (RAM_SIZE - 5)..(RAM_SIZE - 2)
                /\ \/ chip8'.program_counter = chip8.program_counter + 2
                   \/ /\ IsSkip(NextWord) /\ SkipCondition(chip8, NextWord)
                      /\ chip8'.program_counter = chip8.program_counter + 4
       /\ last'.op # "tick" /\ chip8.program_counter <= RAM_SIZE - 2
          => chip8'.program_counter <= RAM_SIZE - 2]_vars

\* ROM_END has run its last instruction, the taken skip 3000 at 0xFFE: PC is
\* 4098 and no jump has put it there.
C21_Witness ==
    /\ last.op = "tick" /\ last.b = 12288 /\ last.a = RAM_SIZE - 2
    /\ panic = NoPanic
    /\ chip8.program_counter = RAM_SIZE + 2

\* The three bytes at I are the decimal digits of v, and c differs from
\* before in these bytes only.
DigitsStored(before, c, v) ==
    LET i  == before.register_i
        m0 == RamAt(c.ram, i)
        m1 == RamAt(c.ram, i + 1)
        m2 == RamAt(c.ram, i + 2)
    IN /\ m0 = v \div 100 /\ m1 = (v \div 10) % 10 /\ m2 = v % 10
       /\ {m0, m1, m2} \subseteq 0..9
       /\ 100 * m0 + 10 * m1 + m2 = v
       /\ \A a \in (DOMAIN before.ram \cup DOMAIN c.ram) \ {i, i + 1, i + 2} :
             RamAt(c.ram, a) = RamAt(before.ram, a)
       /\ [c EXCEPT !.ram = before.ram] = before

\* C22: Fx33 with I <= 4093, for every byte v of V[x]: after the step
\* memory[I] = v div 100, memory[I+1] = (v div 10) mod 10, memory[I+2] =
\* v mod 10, each a digit 0..9 with 100*memory[I] + 10*memory[I+1] +
\* memory[I+2] = v; no other byte of memory, no register and not I has
\* changed.  Stated of every such step of a run and, in the constructed
\* machine, of every v in 0..255 at the first, a middle and the last I.
C22_Bcd ==
    /\ [](last.op = "new" =>
            \A v \in 0..(U8 - 1) : \A i \in {0, START_ADDRESS, RAM_SIZE - 3} :
                LET c == [chip8 EXCEPT !.register_v[1] = v, !.register_i = i]
                    r == execute(c, Word(15, 1, 3, 3), 0, TRUE)
                IN r.panic = NoPanic /\ DigitsStored(c, r.chip, v))
    /\ [][last'.op = "tick" /\ IsOpF(NextWord, 51) /\ chip8.register_i <= RAM_SIZE - 3 =>
            /\ panic' = NoPanic
            /\ DigitsStored(Fetched(chip8), chip8',
                            chip8.register_v[(NextWord \div 256) % 16])]_vars

\* ROM_BCD has stored the digits 2, 5, 5 of V0 = 255 in the last three
\* bytes of memory.
C22_Witness ==
    /\ last.op = "tick" /\ last.b = 61491 /\ panic = NoPanic
    /\ chip8.register_i = RAM_SIZE - 3
    /\ chip8.register_v[0] = 255
    /\ RamAt(chip8.ram, RAM_SIZE - 3) = 2
    /\ RamAt(chip8.ram, RAM_SIZE - 2) = 5
    /\ RamAt(chip8.ram, RAM_SIZE - 1) = 5

\* c is before with V[0..x] written to memory[I..I+x] and no other change.
RegistersStored(before, c, x) ==
    LET i == before.register_i
    IN /\ \A k \in 0..x : RamAt(c.ram, i + k) = before.register_v[k]
       /\ \A a \in (DOMAIN before.ram \cup DOMAIN c.ram) \ (i..(i + x)) :
             RamAt(c.ram, a) = RamAt(before.ram, a)
       /\ [c EXCEPT !.ram = before.ram] = before

\* c is before with V[0..x] read from memory[I..I+x] and no other change.
RegistersLoaded(before, c, x) ==
    c = [before EXCEPT !.register_v =
            [r \in 0..(NUM_REGISTER_V - 1) |->
                IF r <= x THEN RamAt(before.ram, before.register_i + r)
                ELSE before.register_v[r]]]

\* c with the byte w written to each of V[0..x].
Overwritten(c, x, w) ==
    [c EXCEPT !.register_v =
        [r \in 0..(NUM_REGISTER_V - 1) |-> IF r <= x THEN w ELSE c.register_v[r]]]

\* Fx55, writes of w to V[0..x], then Fx65 with the same x and I give back
\* the registers c had.
RoundTrip(c, x, w) ==
    LET stored == execute(c, Word(15, x, 5, 5), 0, TRUE)
        loaded_back == execute(Overwritten(stored.chip, x, w), Word(15, x, 6, 5), 0, TRUE)
    IN /\ stored.panic = NoPanic /\ loaded_back.panic = NoPanic
       /\ RegistersStored(c, stored.chip, x)
       /\ RegistersLoaded(Overwritten(stored.chip, x, w), loaded_back.chip, x)
       /\ loaded_back.chip.register_i = c.register_i
       /\ loaded_back.chip.register_v = c.register_v

\* C23: register store and load round-trip and leave I alone: for every x
\* in 0..15 and I with I + x <= 4095, Fx55 writes V[k] to memory[I+k] for
\* exactly k = 0..x and changes no other byte; Fx65 sets V[k] = memory[I+k]
\* for exactly k = 0..x and leaves V[x+1..15] as they were; neither changes
\* I (or anything else); so Fx55, any writes to V[0..x], then Fx65 with the
\* same x and I restore V[0..x].  Stated of every such step of a run, of
\* the round trip started in every reachable state about to store, and, in
\* the constructed machine with V[k] = 255 - k, of every x at I = 0x200 and
\* at the last I that fits.
C23_StoreLoadRoundTrip ==
    /\ [](last.op = "new" =>
            \A x \in 0..(NUM_REGISTER_V - 1) :
              \A i \in {START_ADDRESS, RAM_SIZE - 1 - x} : \A w \in ByteSamples :
                RoundTrip([chip8 EXCEPT
                              !.register_v = [r \in 0..(NUM_REGISTER_V - 1) |-> 255 - r],
                              !.register_i = i], x, w))
    /\ [](/\ loaded /\ panic = NoPanic /\ IsOpF(NextWord, 85)
          /\ chip8.register_i + ((NextWord \div 256) % 16) <= RAM_SIZE - 1
          => \A w \in ByteSamples :
                 RoundTrip(Fetched(chip8), (NextWord \div 256) % 16, w))
    /\ [][/\ last'.op = "tick" /\ (IsOpF(NextWord, 85) \/ IsOpF(NextWord, 101))
          /\ chip8.register_i + ((NextWord \div 256) % 16) <= RAM_SIZE - 1
          => /\ panic' = NoPanic
             /\ IsOpF(NextWord, 85) =>
                   RegistersStored(Fetched(chip8), chip8', (NextWord \div 256) % 16)
             /\ IsOpF(NextWord, 101) =>
                   RegistersLoaded(Fetched(chip8), chip8', (NextWord \div 256) % 16)]_vars

\* ROM_STORE has stored V0..V2 = 3, 16, AA at 0x300, overwritten them and
\* V3, and loaded them back: V0..V2 are as stored and V3 is the 09 written
\* after the store.
C23_Witness ==
    /\ last.op = "tick" /\ last.b = 62053 /\ last.a = START_ADDRESS + 20
    /\ panic = NoPanic
    /\ chip8.register_i = 768
    /\ chip8.register_v[0] = 3 /\ chip8.register_v[1] = 16
    /\ chip8.register_v[2] = 170 /\ chip8.register_v[3] = 9
    /\ RamAt(chip8.ram, 770) = 170

\* C24: the host loop keeps a fixed schedule.  In every frame the input
\* events come first (keypress calls, or a reset followed at once by the
\* load of the bytes read at the start), then exactly TICKS_PER_FRAME = 10
\* ticks, then one tick_timers, then the display is read: tick_timers is
\* called after the 10th tick of the frame and only then, so there are
\* exactly 10 ticks between two tick_timers calls; the keys change before
\* the first tick of a frame only, never between its ticks; a reset is
\* followed by the load and by no tick.
C24_FrameSchedule ==
    /\ [](frame.steps \in 0..TICKS_PER_FRAME)
    /\ [][/\ last'.op = "tick_timers" =>
                /\ last.op = "tick" /\ frame.steps = TICKS_PER_FRAME
                /\ frame'.steps = TICKS_PER_FRAME
          /\ last'.op = "tick" =>
                /\ loaded
                /\ last.op \in {"load", "keypress", "get_display", "tick"}
                /\ last.op = "tick" <=> frame.steps > 0
                /\ frame'.steps = frame.steps + 1
                /\ panic' = NoPanic => chip8'.keys = chip8.keys
          /\ last'.op = "get_display" =>
                /\ last.op = "tick_timers"
                /\ frame'.steps = 0
                /\ chip8' = chip8
          /\ last'.op \in {"keypress", "reset", "return"} =>
                /\ last.op \in {"load", "keypress", "get_display"}
                /\ frame.steps = 0 /\ frame'.steps = 0
          /\ chip8'.keys # chip8.keys => last'.op \in {"keypress", "reset"}
          /\ last.op = "reset" =>
                /\ last'.op = "load" /\ last'.a = frame.program
                /\ chip8' = load(new, Programs[frame.program]).chip
                /\ loaded'
          /\ last'.op = "load" => last.op \in {"new", "reset"}]_vars

\* The first frame of ROM_TIMERS is over: key 1 went down before its ticks,
\* the 10 ticks have set the delay timer to V0 = 3, the one tick_timers has
\* brought it to 2, and the display has been read.
C24_Witness ==
    /\ last.op = "get_display" /\ panic = NoPanic
    /\ frame.phase = "events" /\ frame.steps = 0
    /\ Programs[frame.program] = ROM_TIMERS
    /\ chip8.keys[1]
    /\ chip8.register_v[0] = 3
    /\ chip8.delay_timer = 2

\* C25: the debug flag is false in every reachable state: new builds it
\* false, reset sets it false, and load, keypress, tick and tick_timers leave
\* it false (get_display and is_beeping only read), also when they fail; so
\* every tick that fetches a word runs it through execute, never through
\* execute_with_debug.
C25_DebugNeverSet ==
    /\ [](~chip8.is_debug /\ ~new.is_debug)
    /\ [][/\ ~chip8'.is_debug
          /\ last'.op = "reset" => ~reset(chip8).chip.is_debug
          /\ (last'.op = "tick" /\ last'.b # -1) =>
                /\ ~fetch(chip8).chip.is_debug
                /\ \E rng \in RandBytes(chip8), overflow_checks \in BOOLEAN :
                      LET r == execute(fetch(chip8).chip, last'.b, rng, overflow_checks)
                      IN chip8' = r.chip /\ panic' = r.panic]_vars

\* A loaded machine that has just been stepped, a key having been pressed
\* and the timers having been ticked down: load, keypress, tick_timers and
\* tick have all acted and the flag is still false.
C25_Witness ==
    /\ last.op = "tick" /\ last.b # -1 /\ panic = NoPanic
    /\ loaded /\ chip8.program_counter > START_ADDRESS
    /\ chip8.delay_timer = 1 /\ chip8.register_v[0] = 3
    /\ chip8.keys[1]
    /\ ~chip8.is_debug

====
